---- MODULE Spec2Model ----
(***************************************************************************)
(* Talaash lost-and-found backend: the account directory, the Found and    *)
(* Lost listing tables, the uploads directory and the request handlers of  *)
(* app/routes/{auth,items,admin}_routes.py.                                *)
(*                                                                         *)
(* Every handler is a function from (database state, request) to           *)
(* (response, database state); the action of the handler applies that      *)
(* function to the current state.  Claims about one call are invariants    *)
(* over the handler function at every reachable state, claims about        *)
(* histories are action properties.                                        *)
(***************************************************************************)
EXTENDS Integers, Sequences, FiniteSets, TLC

VARIABLES users, found, lost, files, uuid_ctr, reqs

vars == <<users, found, lost, files, uuid_ctr, reqs>>

----------------------------------------------------------------------------
(* Bounds of the model *)

\* uploads (uuid4 names drawn) over one run
MaxUploads == 2

----------------------------------------------------------------------------
(* Request inputs *)

E1 == "a@khi.iba.edu.pk"
E2 == "b@khi.iba.edu.pk"
EOther == "d@iba.edu.pk"

Emails == {E1, E2}
RequestEmails == Emails \cup {EOther, ""}

\* str.split("@") of the addresses above
EmailParts(email) ==
    CASE email = E1 -> [local |-> "a", domain |-> "khi.iba.edu.pk"]
      [] email = E2 -> [local |-> "b", domain |-> "khi.iba.edu.pk"]
      [] email = EOther -> [local |-> "d", domain |-> "iba.edu.pk"]
      [] OTHER -> [local |-> "", domain |-> ""]

validate_iba_email(email) ==
    /\ email # ""
    /\ EmailParts(email).local # ""
    /\ EmailParts(email).domain = "khi.iba.edu.pk"

SignupNames == {"Ali"}

ADMIN_KEY == "admin_secret_2024"
AdminKeys == {ADMIN_KEY, "guess"}
\* addresses the modelled admin registrations are made for
AdminSignupEmails == {E2, EOther}

Tokens == {"tokA", "tokB", "expired", ""}

NoClaims == [ok |-> FALSE, uid |-> "", email |-> "", name |-> "", email_verified |-> FALSE]

\* auth.verify_id_token: the identity provider's answer for each token
verify_token(token) ==
    CASE token = "tokA" -> [ok |-> TRUE, uid |-> "uA", email |-> E1, name |-> "", email_verified |-> TRUE]
      [] token = "tokB" -> [ok |-> TRUE, uid |-> "uB", email |-> E2, name |-> "Ali", email_verified |-> FALSE]
      [] OTHER -> NoClaims

\* None (ok = FALSE) when verification raised
get_user_from_token(token) == verify_token(token)

Lower(s) ==
    CASE s \in {"Bearer", "bearer"} -> "bearer"
      [] s = "Basic" -> "basic"
      [] OTHER -> s

\* an Authorization header as the list of its whitespace-separated parts;
\* <<>> is the absent header
AuthHeaders ==
    {<<>>, <<"tokA">>, <<"Basic", "tokA">>, <<"Bearer", "tokA">>, <<"bearer", "tokB">>,
     <<"Bearer", "expired">>}

\* "" is None
extract_token_from_header(authorization_header) ==
    IF authorization_header = <<>> THEN ""
    ELSE IF Len(authorization_header) # 2 \/ Lower(authorization_header[1]) # "bearer" THEN ""
    ELSE authorization_header[2]

\* status codes fastapi.security.HTTPBearer answers with, by FastAPI version
HTTPBearerErrorCodes == {401, 403}

\* HTTPBearer(): credentials of the header, "" when it raises
security(authorization_header) ==
    IF Len(authorization_header) # 2 THEN ""
    ELSE IF Lower(authorization_header[1]) # "bearer" THEN ""
    ELSE authorization_header[2]

----------------------------------------------------------------------------
(* Tables *)

NoUser == [id |-> 0, name |-> "", email |-> "", role |-> ""]

\* db.query(UserDB).filter(UserDB.email == email).first()
get_user_by_email(us, email) ==
    IF \E i \in 1..Len(us) : us[i].email = email
    THEN us[CHOOSE i \in 1..Len(us) : us[i].email = email]
    ELSE NoUser

user_exists(us, email) == get_user_by_email(us, email).id # 0

\* the database state the handlers read and write
St == [users |-> users, found |-> found, lost |-> lost, files |-> files,
       uuid_ctr |-> uuid_ctr]

Max(S) == CHOOSE x \in S : \A y \in S : y <= x

\* INTEGER PRIMARY KEY of a table created by Base.metadata.create_all
NextId(tbl) == IF DOMAIN tbl = {} THEN 1 ELSE Max(DOMAIN tbl) + 1

\* rows of a table in rowid order
RECURSIVE SortedIds(_)
SortedIds(S) ==
    IF S = {} THEN <<>>
    ELSE LET m == CHOOSE x \in S : \A y \in S : x <= y
         IN <<m>> \o SortedIds(S \ {m})

\* the row a handler returns: the columns and the primary key
Row(tbl, id) == [id |-> id] @@ tbl[id]

----------------------------------------------------------------------------
(* Account directory *)

\* UserDB(...); db.add; db.commit: the UNIQUE constraint on users.email
\* makes the commit raise IntegrityError
create_user(st, name, email, role) ==
    IF user_exists(st.users, email)
    THEN [ok |-> FALSE, st |-> st, user |-> NoUser]
    ELSE LET u == [id |-> Len(st.users) + 1, name |-> name, email |-> email, role |-> role]
         IN [ok |-> TRUE, st |-> [st EXCEPT !.users = Append(@, u)], user |-> u]

\* no account to insert
NoCreate == [name |-> "", email |-> "", role |-> "", code |-> 0]

\* what a handler answers: status code, new state, the account or the id of
\* the item it returns, and (new.code # 0) the create_user call it is about
\* to make
Reply(code, st) == [code |-> code, st |-> st, user |-> NoUser, item |-> 0, new |-> NoCreate]

\* signup without the check of the email's domain
signup_lookup_any_domain(st, name, email) ==
    LET existing_user == get_user_by_email(st.users, email)
    IN IF existing_user.id # 0
       THEN [Reply(201, st) EXCEPT !.user = existing_user]
       ELSE [Reply(0, st) EXCEPT
               !.new = [name |-> name, email |-> email, role |-> "user", code |-> 201]]

\* signup up to the point where it calls create_user
signup_lookup(st, name, email) ==
    IF ~validate_iba_email(email) THEN Reply(400, st)
    ELSE LET existing_user == get_user_by_email(st.users, email)
         IN IF existing_user.id # 0
            THEN [Reply(201, st) EXCEPT !.user = existing_user]
            ELSE [Reply(0, st) EXCEPT
                    !.new = [name |-> name, email |-> email, role |-> "user", code |-> 201]]

\* login up to the point where it calls create_user
login_lookup(st, email, token) ==
    IF email = "" THEN Reply(422, st)
    ELSE IF token = "" THEN Reply(422, st)
    ELSE IF ~validate_iba_email(email) THEN Reply(400, st)
    ELSE LET db_user == get_user_by_email(st.users, email)
             token_user == get_user_from_token(token)
         IN IF db_user.id # 0
            THEN [Reply(200, st) EXCEPT !.user = db_user]
            ELSE IF token_user.ok /\ token_user.email = email
            THEN [Reply(0, st) EXCEPT
                    !.new = [name |-> IF token_user.name # "" THEN token_user.name
                                      ELSE EmailParts(email).local,
                             email |-> email, role |-> "user", code |-> 200]]
            ELSE Reply(404, st)

\* admin_signup promoting the account an email already has
admin_signup_lookup_promote(st, name, email, admin_key) ==
    IF admin_key # ADMIN_KEY THEN Reply(401, st)
    ELSE IF ~validate_iba_email(email) THEN Reply(400, st)
    ELSE IF user_exists(st.users, email)
    THEN LET u == get_user_by_email(st.users, email)
         IN [Reply(201, [st EXCEPT !.users[u.id].role = "admin"]) EXCEPT
                !.user = [u EXCEPT !.role = "admin"]]
    ELSE [Reply(0, st) EXCEPT
            !.new = [name |-> name, email |-> email, role |-> "admin", code |-> 201]]

\* admin_signup up to the point where it calls create_user
admin_signup_lookup(st, name, email, admin_key) ==
    IF admin_key # ADMIN_KEY THEN Reply(401, st)
    ELSE IF ~validate_iba_email(email) THEN Reply(400, st)
    ELSE IF user_exists(st.users, email) THEN Reply(400, st)
    ELSE [Reply(0, st) EXCEPT
            !.new = [name |-> name, email |-> email, role |-> "admin", code |-> 201]]

\* the rest of the three handlers: create_user and the response; an
\* IntegrityError out of create_user is not caught and becomes a 500
create_user_commit(st, new) ==
    LET c == create_user(st, new.name, new.email, new.role)
    IN IF c.ok THEN [Reply(new.code, c.st) EXCEPT !.user = c.user]
       ELSE Reply(500, st)

\* a handler run with no other request between its lookup and its insert
Whole(lookup) ==
    IF lookup.new.code # 0 THEN create_user_commit(lookup.st, lookup.new)
    ELSE lookup

signup_fn(st, name, email) == Whole(signup_lookup(st, name, email))
login_fn(st, email, token) == Whole(login_lookup(st, email, token))
admin_signup_fn(st, name, email, admin_key) ==
    Whole(admin_signup_lookup(st, name, email, admin_key))

----------------------------------------------------------------------------
(* Listings: inputs *)

Descriptions == {"Blue backpack"}
Locations == {"Library"}

DateInputs == {"2024-01-15T14:30:00", "15/01/2024"}

\* the text fields as the form can carry them: "" is a field sent empty
FormDescriptions == Descriptions \cup {""}
FormLocations == Locations \cup {""}

\* Form(...): FastAPI reads an empty form field as a missing one and
\* answers 422 before the handler runs
form_required(value) == value # ""

\* datetime.fromisoformat: ok = FALSE is ValueError
fromisoformat(s) ==
    CASE s = "2024-01-15T14:30:00" -> [ok |-> TRUE, value |-> <<2024, 1, 15, 14, 30, 0>>]
      [] OTHER -> [ok |-> FALSE, value |-> <<>>]

MAX_FILE_SIZE_MB == 5
ALLOWED_EXTENSIONS == {".jpg", ".jpeg", ".png", ".gif", ".webp"}
allowed_types == {"image/jpeg", "image/png", "image/gif", "image/webp"}

UploadFiles ==
    { [filename |-> "bag.jpg", content_type |-> "image/jpeg", size |-> 2048],
      [filename |-> "notes.txt", content_type |-> "text/plain", size |-> 2048],
      [filename |-> "", content_type |-> "image/png", size |-> 2048],
      [filename |-> "big.PNG", content_type |-> "image/png", size |-> 5242881] }

\* os.path.splitext(filename)[1]
splitext(filename) ==
    CASE filename = "bag.jpg" -> ".jpg"
      [] filename = "big.PNG" -> ".PNG"
      [] filename = "notes.txt" -> ".txt"
      [] OTHER -> ""

\* "." + (filename.split('.')[-1] if '.' in filename else 'jpg')
upload_image_ext(filename) ==
    CASE filename = "bag.jpg" -> ".jpg"
      [] filename = "big.PNG" -> ".PNG"
      [] filename = "notes.txt" -> ".txt"
      [] OTHER -> ".jpg"

LowerExt(ext) == IF ext = ".PNG" THEN ".png" ELSE ext

validate_image_file(filename) == LowerExt(splitext(filename)) \in ALLOWED_EXTENSIONS

validate_file_size(file_size, max_size_mb) == file_size <= max_size_mb * 1024 * 1024

\* what the environment does during one request: the status HTTPBearer
\* raises with, whether the file write, the unlink and the commit succeed
\* (at most one of the three fails during one request)
Envs ==
    {env \in [bearer_code : HTTPBearerErrorCodes, disk_ok : BOOLEAN, rm_ok : BOOLEAN,
              db_ok : BOOLEAN] :
        Cardinality({k \in {"disk_ok", "rm_ok", "db_ok"} : ~env[k]}) <= 1}

\* the requests during which the disk and the database work
OkEnvs == {env \in Envs : env.disk_ok /\ env.rm_ok /\ env.db_ok}

\* "/uploads/<name>" as its components; the file of a URL is the URL
\* without its leading slash
Url(path) == <<"/">> \o path
LStrip(url) == IF Len(url) > 0 /\ url[1] = "/" THEN Tail(url) ELSE url

----------------------------------------------------------------------------
(* Listings: creation *)

\* Column(DateTime, default=datetime.utcnow): the time of the insert, as
\* the number of files written up to it
utcnow(st) == st.uuid_ctr

\* create_found_item with the status of the admin route
create_found_item_approved(st, user_id, description, location, date_found, image_url) ==
    LET id == NextId(st.found)
        row == [user_id |-> user_id, description |-> description, location |-> location,
                date |-> date_found, image_url |-> image_url, status |-> "approved",
                created_at |-> utcnow(st)]
    IN [st |-> [st EXCEPT !.found = (id :> row) @@ @], id |-> id]

\* FoundItemDB(...) without a status: the column default applies
create_found_item(st, user_id, description, location, date_found, image_url) ==
    LET id == NextId(st.found)
        row == [user_id |-> user_id, description |-> description, location |-> location,
                date |-> date_found, image_url |-> image_url, status |-> "pending",
                created_at |-> utcnow(st)]
    IN [st |-> [st EXCEPT !.found = (id :> row) @@ @], id |-> id]

create_lost_item(st, user_id, description, location, date_lost, image_url) ==
    LET id == NextId(st.lost)
        row == [user_id |-> user_id, description |-> description, location |-> location,
                date |-> date_lost, image_url |-> image_url, status |-> "pending",
                created_at |-> utcnow(st)]
    IN [st |-> [st EXCEPT !.lost = (id :> row) @@ @], id |-> id]

\* the upload checks without the lookup of the caller's account
upload_checks_no_account(st, authorization, date_str, file, env) ==
    LET token_str == security(authorization)
        user_data == get_user_from_token(token_str)
        db_user == get_user_by_email(st.users, user_data.email)
        name == st.uuid_ctr + 1
        path == <<"uploads", name, splitext(file.filename)>>
    IN IF token_str = "" THEN [code |-> env.bearer_code, st |-> st, db_user |-> NoUser, path |-> <<>>]
       ELSE IF ~user_data.ok THEN [code |-> 401, st |-> st, db_user |-> NoUser, path |-> <<>>]
       ELSE IF file.filename = "" THEN [code |-> 400, st |-> st, db_user |-> db_user, path |-> <<>>]
       ELSE IF ~validate_image_file(file.filename)
            THEN [code |-> 400, st |-> st, db_user |-> db_user, path |-> <<>>]
       ELSE IF ~validate_file_size(file.size, MAX_FILE_SIZE_MB)
            THEN [code |-> 413, st |-> st, db_user |-> db_user, path |-> <<>>]
       ELSE IF ~fromisoformat(date_str).ok
            THEN [code |-> 400, st |-> st, db_user |-> db_user, path |-> <<>>]
       ELSE IF ~env.disk_ok
            THEN [code |-> 500, st |-> [st EXCEPT !.uuid_ctr = name], db_user |-> db_user, path |-> <<>>]
       ELSE [code |-> 0,
             st |-> [st EXCEPT !.uuid_ctr = name, !.files = @ \cup {path}],
             db_user |-> db_user, path |-> path]

\* the checks upload_found_item and upload_lost_item share, and the file
\* write; code 0 means the file is on disk and the record is to be created
upload_checks(st, authorization, date_str, file, env) ==
    LET token_str == security(authorization)
        user_data == get_user_from_token(token_str)
        db_user == get_user_by_email(st.users, user_data.email)
        name == st.uuid_ctr + 1
        path == <<"uploads", name, splitext(file.filename)>>
    IN IF token_str = "" THEN [code |-> env.bearer_code, st |-> st, db_user |-> NoUser, path |-> <<>>]
       ELSE IF ~user_data.ok THEN [code |-> 401, st |-> st, db_user |-> NoUser, path |-> <<>>]
       ELSE IF db_user.id = 0 THEN [code |-> 404, st |-> st, db_user |-> NoUser, path |-> <<>>]
       ELSE IF file.filename = "" THEN [code |-> 400, st |-> st, db_user |-> db_user, path |-> <<>>]
       ELSE IF ~validate_image_file(file.filename)
            THEN [code |-> 400, st |-> st, db_user |-> db_user, path |-> <<>>]
       ELSE IF ~validate_file_size(file.size, MAX_FILE_SIZE_MB)
            THEN [code |-> 413, st |-> st, db_user |-> db_user, path |-> <<>>]
       ELSE IF ~fromisoformat(date_str).ok
            THEN [code |-> 400, st |-> st, db_user |-> db_user, path |-> <<>>]
       ELSE IF ~env.disk_ok
            THEN [code |-> 500, st |-> [st EXCEPT !.uuid_ctr = name], db_user |-> db_user, path |-> <<>>]
       ELSE [code |-> 0,
             st |-> [st EXCEPT !.uuid_ctr = name, !.files = @ \cup {path}],
             db_user |-> db_user, path |-> path]

upload_found_item_fn(st, authorization, description, location, date_found, file, env) ==
    LET c == upload_checks(st, authorization, date_found, file, env)
    IN IF security(authorization) # "" /\ ~(form_required(description) /\ form_required(location))
       THEN Reply(422, st)
       ELSE IF c.code # 0 THEN Reply(c.code, c.st)
       ELSE IF ~env.db_ok THEN Reply(500, c.st)
       ELSE LET r == create_found_item(c.st, c.db_user.id, description, location,
                                       fromisoformat(date_found).value, Url(c.path))
            IN [Reply(201, r.st) EXCEPT !.item = r.id]

\* upload_lost_item taking empty form fields as they come
upload_lost_item_fn_blank_ok(st, authorization, description, location, date_lost, file, env) ==
    LET c == upload_checks(st, authorization, date_lost, file, env)
    IN IF c.code # 0 THEN Reply(c.code, c.st)
       ELSE IF ~env.db_ok THEN Reply(500, c.st)
       ELSE LET r == create_lost_item(c.st, c.db_user.id, description, location,
                                      fromisoformat(date_lost).value, Url(c.path))
            IN [Reply(201, r.st) EXCEPT !.item = r.id]

upload_lost_item_fn(st, authorization, description, location, date_lost, file, env) ==
    LET c == upload_checks(st, authorization, date_lost, file, env)
    IN IF security(authorization) # "" /\ ~(form_required(description) /\ form_required(location))
       THEN Reply(422, st)
       ELSE IF c.code # 0 THEN Reply(c.code, c.st)
       ELSE IF ~env.db_ok THEN Reply(500, c.st)
       ELSE LET r == create_lost_item(c.st, c.db_user.id, description, location,
                                      fromisoformat(date_lost).value, Url(c.path))
            IN [Reply(201, r.st) EXCEPT !.item = r.id]

\* the credential check every admin route starts with: 0 when the caller
\* is an admin
admin_gate(st, authorization) ==
    LET token == extract_token_from_header(authorization)
        user_data == get_user_from_token(token)
        db_user == get_user_by_email(st.users, user_data.email)
    IN IF authorization = <<>> THEN [code |-> 401, db_user |-> NoUser]
       ELSE IF token = "" THEN [code |-> 401, db_user |-> NoUser]
       ELSE IF ~user_data.ok THEN [code |-> 401, db_user |-> NoUser]
       ELSE IF db_user.id = 0 \/ db_user.role # "admin" THEN [code |-> 403, db_user |-> db_user]
       ELSE [code |-> 0, db_user |-> db_user]

add_found_item_fn(st, authorization, description, location, date_found, file, env) ==
    LET g == admin_gate(st, authorization)
        name == st.uuid_ctr + 1
        path == <<"uploads/found_items", name, upload_image_ext(file.filename)>>
        up == [st EXCEPT !.uuid_ctr = name, !.files = @ \cup {path}]
        id == NextId(st.found)
        new_item == [user_id |-> g.db_user.id, description |-> description,
                     location |-> location, date |-> fromisoformat(date_found).value,
                     image_url |-> Url(path), status |-> "approved",
                     created_at |-> utcnow(up)]
    IN IF ~(form_required(description) /\ form_required(location)) THEN Reply(422, st)
       ELSE IF g.code # 0 THEN Reply(g.code, st)
       ELSE IF file.content_type \notin allowed_types THEN Reply(400, st)
       ELSE IF file.size > 5 * 1024 * 1024 THEN Reply(400, st)
       ELSE IF ~fromisoformat(date_found).ok THEN Reply(400, st)
       ELSE IF ~env.disk_ok THEN Reply(500, [st EXCEPT !.uuid_ctr = name])
       ELSE IF ~env.db_ok THEN Reply(500, up)
       ELSE [Reply(201, [up EXCEPT !.found = (id :> new_item) @@ @]) EXCEPT !.item = id]

----------------------------------------------------------------------------
(* Listings: moderation and deletion *)

ItemIds == 1..(MaxUploads + 1)

\* approve_item looking the item up before it checks the caller
approve_item_fn_lookup_first(st, authorization, item_id) ==
    LET g == admin_gate(st, authorization)
    IN IF g.code = 401 THEN Reply(g.code, st)
       ELSE IF item_id \notin DOMAIN st.found THEN Reply(404, st)
       ELSE IF g.code # 0 THEN Reply(g.code, st)
       ELSE [Reply(200, [st EXCEPT !.found[item_id].status = "approved"]) EXCEPT !.item = item_id]

\* approve_item refusing an item that is approved already
approve_item_fn_once(st, authorization, item_id) ==
    LET g == admin_gate(st, authorization)
    IN IF g.code # 0 THEN Reply(g.code, st)
       ELSE IF item_id \notin DOMAIN st.found THEN Reply(404, st)
       ELSE IF st.found[item_id].status = "approved" THEN Reply(409, st)
       ELSE [Reply(200, [st EXCEPT !.found[item_id].status = "approved"]) EXCEPT !.item = item_id]

\* approve_item open to every account, admin or not
approve_item_fn_any_account(st, authorization, item_id) ==
    LET g == admin_gate(st, authorization)
    IN IF g.code = 401 \/ g.db_user.id = 0 THEN Reply(g.code, st)
       ELSE IF item_id \notin DOMAIN st.found THEN Reply(404, st)
       ELSE [Reply(200, [st EXCEPT !.found[item_id].status = "approved"]) EXCEPT !.item = item_id]

approve_item_fn(st, authorization, item_id) ==
    LET g == admin_gate(st, authorization)
    IN IF g.code # 0 THEN Reply(g.code, st)
       ELSE IF item_id \notin DOMAIN st.found THEN Reply(404, st)
       ELSE [Reply(200, [st EXCEPT !.found[item_id].status = "approved"]) EXCEPT !.item = item_id]

\* reject_item acting on pending items only
reject_item_fn_pending_only(st, authorization, item_id) ==
    LET g == admin_gate(st, authorization)
    IN IF g.code # 0 THEN Reply(g.code, st)
       ELSE IF item_id \notin DOMAIN st.found THEN Reply(404, st)
       ELSE IF st.found[item_id].status # "pending" THEN Reply(409, st)
       ELSE [Reply(200, [st EXCEPT !.found[item_id].status = "rejected"]) EXCEPT !.item = item_id]

\* reject_item answering success for an id that has no item
reject_item_fn_missing_ok(st, authorization, item_id) ==
    LET g == admin_gate(st, authorization)
    IN IF g.code # 0 THEN Reply(g.code, st)
       ELSE IF item_id \notin DOMAIN st.found THEN Reply(200, st)
       ELSE [Reply(200, [st EXCEPT !.found[item_id].status = "rejected"]) EXCEPT !.item = item_id]

reject_item_fn(st, authorization, item_id) ==
    LET g == admin_gate(st, authorization)
    IN IF g.code # 0 THEN Reply(g.code, st)
       ELSE IF item_id \notin DOMAIN st.found THEN Reply(404, st)
       ELSE [Reply(200, [st EXCEPT !.found[item_id].status = "rejected"]) EXCEPT !.item = item_id]

\* approve_lost_item acting on pending items only
approve_lost_item_fn_pending_only(st, authorization, item_id) ==
    LET g == admin_gate(st, authorization)
    IN IF g.code # 0 THEN Reply(g.code, st)
       ELSE IF item_id \notin DOMAIN st.lost THEN Reply(404, st)
       ELSE IF st.lost[item_id].status # "pending" THEN Reply(409, st)
       ELSE [Reply(200, [st EXCEPT !.lost[item_id].status = "approved"]) EXCEPT !.item = item_id]

\* approve_lost_item closing the item as found
approve_lost_item_fn_found(st, authorization, item_id) ==
    LET g == admin_gate(st, authorization)
    IN IF g.code # 0 THEN Reply(g.code, st)
       ELSE IF item_id \notin DOMAIN st.lost THEN Reply(404, st)
       ELSE [Reply(200, [st EXCEPT !.lost[item_id].status = "found"]) EXCEPT !.item = item_id]

\* approve_lost_item approving the found item of the same id as well
approve_lost_item_fn_both_kinds(st, authorization, item_id) ==
    LET g == admin_gate(st, authorization)
    IN IF g.code # 0 THEN Reply(g.code, st)
       ELSE IF item_id \notin DOMAIN st.lost THEN Reply(404, st)
       ELSE LET approved == [st EXCEPT !.lost[item_id].status = "approved"]
            IN [Reply(200, IF item_id \in DOMAIN st.found
                           THEN [approved EXCEPT !.found[item_id].status = "approved"]
                           ELSE approved)
                  EXCEPT !.item = item_id]

approve_lost_item_fn(st, authorization, item_id) ==
    LET g == admin_gate(st, authorization)
    IN IF g.code # 0 THEN Reply(g.code, st)
       ELSE IF item_id \notin DOMAIN st.lost THEN Reply(404, st)
       ELSE [Reply(200, [st EXCEPT !.lost[item_id].status = "approved"]) EXCEPT !.item = item_id]

\* reject_lost_item writing a status of its own
reject_lost_item_fn_declined(st, authorization, item_id) ==
    LET g == admin_gate(st, authorization)
    IN IF g.code # 0 THEN Reply(g.code, st)
       ELSE IF item_id \notin DOMAIN st.lost THEN Reply(404, st)
       ELSE [Reply(200, [st EXCEPT !.lost[item_id].status = "declined"]) EXCEPT !.item = item_id]

\* reject_lost_item sending an approved item back to review
reject_lost_item_fn_requeue(st, authorization, item_id) ==
    LET g == admin_gate(st, authorization)
    IN IF g.code # 0 THEN Reply(g.code, st)
       ELSE IF item_id \notin DOMAIN st.lost THEN Reply(404, st)
       ELSE [Reply(200, [st EXCEPT !.lost[item_id].status =
                            IF @ = "approved" THEN "pending" ELSE "rejected"])
                EXCEPT !.item = item_id]

reject_lost_item_fn(st, authorization, item_id) ==
    LET g == admin_gate(st, authorization)
    IN IF g.code # 0 THEN Reply(g.code, st)
       ELSE IF item_id \notin DOMAIN st.lost THEN Reply(404, st)
       ELSE [Reply(200, [st EXCEPT !.lost[item_id].status = "rejected"]) EXCEPT !.item = item_id]

\* a table without one row
Without(tbl, id) == [i \in DOMAIN tbl \ {id} |-> tbl[i]]

\* the credential check of the delete routes: 0 when the caller has an
\* account
owner_gate(st, authorization, env) ==
    LET token_str == security(authorization)
        user_data == get_user_from_token(token_str)
        db_user == get_user_by_email(st.users, user_data.email)
    IN IF token_str = "" THEN [code |-> env.bearer_code, db_user |-> NoUser]
       ELSE IF ~user_data.ok THEN [code |-> 401, db_user |-> NoUser]
       ELSE IF db_user.id = 0 THEN [code |-> 404, db_user |-> NoUser]
       ELSE [code |-> 0, db_user |-> db_user]

\* os.remove of the item's file when it exists; a failure is printed only
remove_file(fs, image_url, env) ==
    IF image_url # <<>> /\ LStrip(image_url) \in fs /\ env.rm_ok
    THEN fs \ {LStrip(image_url)}
    ELSE fs

\* delete_found_item letting an admin delete any item
delete_found_item_fn_admin_may(st, authorization, item_id, env) ==
    LET g == owner_gate(st, authorization, env)
    IN IF g.code # 0 THEN Reply(g.code, st)
       ELSE IF item_id \notin DOMAIN st.found THEN Reply(404, st)
       ELSE IF st.found[item_id].user_id # g.db_user.id /\ g.db_user.role # "admin"
            THEN Reply(403, st)
       ELSE LET rm == [st EXCEPT !.files = remove_file(@, st.found[item_id].image_url, env)]
            IN IF ~env.db_ok THEN Reply(500, rm)
               ELSE [Reply(200, [rm EXCEPT !.found = Without(@, item_id)]) EXCEPT !.item = item_id]

\* delete_found_item giving up when the file cannot be removed
delete_found_item_fn_rm_fatal(st, authorization, item_id, env) ==
    LET g == owner_gate(st, authorization, env)
    IN IF g.code # 0 THEN Reply(g.code, st)
       ELSE IF item_id \notin DOMAIN st.found THEN Reply(404, st)
       ELSE IF st.found[item_id].user_id # g.db_user.id THEN Reply(403, st)
       ELSE IF ~env.rm_ok THEN Reply(500, st)
       ELSE LET rm == [st EXCEPT !.files = remove_file(@, st.found[item_id].image_url, env)]
            IN IF ~env.db_ok THEN Reply(500, rm)
               ELSE [Reply(200, [rm EXCEPT !.found = Without(@, item_id)]) EXCEPT !.item = item_id]

delete_found_item_fn(st, authorization, item_id, env) ==
    LET g == owner_gate(st, authorization, env)
    IN IF g.code # 0 THEN Reply(g.code, st)
       ELSE IF item_id \notin DOMAIN st.found THEN Reply(404, st)
       ELSE IF st.found[item_id].user_id # g.db_user.id THEN Reply(403, st)
       ELSE LET rm == [st EXCEPT !.files = remove_file(@, st.found[item_id].image_url, env)]
            IN IF ~env.db_ok THEN Reply(500, rm)
               ELSE [Reply(200, [rm EXCEPT !.found = Without(@, item_id)]) EXCEPT !.item = item_id]

\* delete_lost_item creating the account a verified caller lacks
delete_lost_item_fn_signs_up(st, authorization, item_id, env) ==
    LET g == owner_gate(st, authorization, env)
        email == get_user_from_token(security(authorization)).email
    IN IF g.code = 404 THEN Reply(404, create_user(st, EmailParts(email).local, email, "user").st)
       ELSE IF g.code # 0 THEN Reply(g.code, st)
       ELSE IF item_id \notin DOMAIN st.lost THEN Reply(404, st)
       ELSE IF st.lost[item_id].user_id # g.db_user.id THEN Reply(403, st)
       ELSE LET rm == [st EXCEPT !.files = remove_file(@, st.lost[item_id].image_url, env)]
            IN IF ~env.db_ok THEN Reply(500, rm)
               ELSE [Reply(200, [rm EXCEPT !.lost = Without(@, item_id)]) EXCEPT !.item = item_id]

delete_lost_item_fn(st, authorization, item_id, env) ==
    LET g == owner_gate(st, authorization, env)
    IN IF g.code # 0 THEN Reply(g.code, st)
       ELSE IF item_id \notin DOMAIN st.lost THEN Reply(404, st)
       ELSE IF st.lost[item_id].user_id # g.db_user.id THEN Reply(403, st)
       ELSE LET rm == [st EXCEPT !.files = remove_file(@, st.lost[item_id].image_url, env)]
            IN IF ~env.db_ok THEN Reply(500, rm)
               ELSE [Reply(200, [rm EXCEPT !.lost = Without(@, item_id)]) EXCEPT !.item = item_id]

----------------------------------------------------------------------------
(* Listings: public lists *)

Skips == {0 - 1, 0, 1, 2}
Limits == {0, 1, 2, 51}
StatusFilters == {"pending", "approved", "rejected", "claimed", "found", "all"}

\* Query(..., regex="^(pending|approved|claimed|all)$")
FoundFilterRegex == {"pending", "approved", "claimed", "all"}
\* Query(..., regex="^(pending|approved|found|all)$")
LostFilterRegex == {"pending", "approved", "found", "all"}

\* query.filter(status == status_filter), in rowid order
FilterRows(tbl, status_filter) ==
    LET ids == {i \in DOMAIN tbl : status_filter = "all" \/ tbl[i].status = status_filter}
        order == SortedIds(ids)
    IN [k \in 1..Len(order) |-> Row(tbl, order[k])]

\* query.offset(skip).limit(limit).all()
OffsetLimit(rows, skip, limit) ==
    SubSeq(rows, skip + 1, IF skip + limit < Len(rows) THEN skip + limit ELSE Len(rows))

NoList == [items |-> <<>>, total |-> 0]

\* list_items counting the page instead of the query
list_items_page_total(tbl, regex, skip, limit, status_filter) ==
    IF skip < 0 \/ limit < 1 \/ limit > 50 \/ status_filter \notin regex
    THEN [code |-> 422, body |-> NoList]
    ELSE LET query == FilterRows(tbl, status_filter)
             page == OffsetLimit(query, skip, limit)
         IN [code |-> 200, body |-> [items |-> page, total |-> Len(page)]]

list_items(tbl, regex, skip, limit, status_filter) ==
    IF skip < 0 \/ limit < 1 \/ limit > 50 \/ status_filter \notin regex
    THEN [code |-> 422, body |-> NoList]
    ELSE LET query == FilterRows(tbl, status_filter)
         IN [code |-> 200,
             body |-> [items |-> OffsetLimit(query, skip, limit), total |-> Len(query)]]

get_found_items_list_fn(st, skip, limit, status_filter) ==
    list_items(st.found, FoundFilterRegex, skip, limit, status_filter)

get_lost_items_list_fn(st, skip, limit, status_filter) ==
    list_items(st.lost, LostFilterRegex, skip, limit, status_filter)

----------------------------------------------------------------------------
(* Listings: the caller's own *)

\* db.query(T).filter(T.user_id == db_user.id).all()
OwnedRows(tbl, user_id) ==
    LET order == SortedIds({i \in DOMAIN tbl : tbl[i].user_id = user_id})
    IN [k \in 1..Len(order) |-> Row(tbl, order[k])]

my_items(st, tbl, authorization, env) ==
    LET g == owner_gate(st, authorization, env)
    IN IF g.code # 0 THEN [code |-> g.code, body |-> NoList]
       ELSE LET items == OwnedRows(tbl, g.db_user.id)
            IN [code |-> 200, body |-> [items |-> items, total |-> Len(items)]]

get_my_found_items_fn(st, authorization, env) == my_items(st, st.found, authorization, env)

get_my_lost_items_fn(st, authorization, env) == my_items(st, st.lost, authorization, env)

----------------------------------------------------------------------------
(* Listings: the admin lists *)

AdminSkips == {0 - 1, 0, 1}
AdminLimits == {0, 1, 20}

NoItems == [items |-> <<>>]

\* the five admin list routes: Query(ge=0) and Query(ge=1, le=50) are
\* checked before the handler runs, then the caller, then
\* query.filter(status).offset(skip).limit(limit).all()
admin_items_page(st, tbl, authorization, skip, limit, status) ==
    LET g == admin_gate(st, authorization)
    IN IF skip < 0 \/ limit < 1 \/ limit > 50 THEN [code |-> 422, body |-> NoItems]
       ELSE IF g.code # 0 THEN [code |-> g.code, body |-> NoItems]
       ELSE [code |-> 200,
             body |-> [items |-> OffsetLimit(FilterRows(tbl, status), skip, limit)]]

get_pending_items_fn(st, authorization, skip, limit) ==
    admin_items_page(st, st.found, authorization, skip, limit, "pending")

get_approved_items_fn(st, authorization, skip, limit) ==
    admin_items_page(st, st.found, authorization, skip, limit, "approved")

get_rejected_items_fn(st, authorization, skip, limit) ==
    admin_items_page(st, st.found, authorization, skip, limit, "rejected")

get_all_items_fn(st, authorization, skip, limit) ==
    admin_items_page(st, st.found, authorization, skip, limit, "all")

get_pending_lost_items_fn(st, authorization, skip, limit) ==
    admin_items_page(st, st.lost, authorization, skip, limit, "pending")

----------------------------------------------------------------------------
(* Dashboard *)

\* db.query(func.count(T.id)).filter(T.status == status).scalar()
CountStatus(tbl, status) == Cardinality({i \in DOMAIN tbl : tbl[i].status = status})

\* db.query(func.count(T.id)).scalar()
CountAll(tbl) == Cardinality(DOMAIN tbl)

NoStatistics == [k \in {} |-> 0]

\* admin_dashboard with the approved count taken as everything not pending
admin_dashboard_fn_reviewed(st, authorization) ==
    LET g == admin_gate(st, authorization)
    IN IF g.code # 0 THEN [code |-> g.code, admin |-> NoUser, statistics |-> NoStatistics]
       ELSE [code |-> 200, admin |-> g.db_user,
             statistics |->
                 [pending_items |-> CountStatus(st.found, "pending"),
                  total_items |-> CountAll(st.found),
                  approved_items |-> CountAll(st.found) - CountStatus(st.found, "pending"),
                  rejected_items |-> CountStatus(st.found, "rejected"),
                  pending_lost_items |-> CountStatus(st.lost, "pending"),
                  total_lost_items |-> CountAll(st.lost),
                  approved_lost_items |-> CountAll(st.lost) - CountStatus(st.lost, "pending")]]

\* the statistics keys are the ones of the returned dict: there is no
\* rejected count of lost items among them
\* admin_dashboard with the total taken over the items not rejected
admin_dashboard_fn_total_open(st, authorization) ==
    LET g == admin_gate(st, authorization)
    IN IF g.code # 0 THEN [code |-> g.code, admin |-> NoUser, statistics |-> NoStatistics]
       ELSE [code |-> 200, admin |-> g.db_user,
             statistics |->
                 [pending_items |-> CountStatus(st.found, "pending"),
                  total_items |-> CountAll(st.found) - CountStatus(st.found, "rejected"),
                  approved_items |-> CountStatus(st.found, "approved"),
                  rejected_items |-> CountStatus(st.found, "rejected"),
                  pending_lost_items |-> CountStatus(st.lost, "pending"),
                  total_lost_items |-> CountAll(st.lost),
                  approved_lost_items |-> CountStatus(st.lost, "approved")]]

admin_dashboard_fn(st, authorization) ==
    LET g == admin_gate(st, authorization)
    IN IF g.code # 0 THEN [code |-> g.code, admin |-> NoUser, statistics |-> NoStatistics]
       ELSE [code |-> 200, admin |-> g.db_user,
             statistics |->
                 [pending_items |-> CountStatus(st.found, "pending"),
                  total_items |-> CountAll(st.found),
                  approved_items |-> CountStatus(st.found, "approved"),
                  rejected_items |-> CountStatus(st.found, "rejected"),
                  pending_lost_items |-> CountStatus(st.lost, "pending"),
                  total_lost_items |-> CountAll(st.lost),
                  approved_lost_items |-> CountStatus(st.lost, "approved")]]

----------------------------------------------------------------------------
(* The service: one request at a time *)

\* concurrent account-creating requests of the interleaved specification
MaxRequests == 2

Slots == 1..MaxRequests

Idle == [phase |-> "idle", op |-> "", email |-> "", new |-> NoCreate, code |-> 0, user |-> NoUser]

Init ==
    /\ users = <<>>
    /\ found = <<>>
    /\ lost = <<>>
    /\ files = {}
    /\ uuid_ctr = 0
    /\ reqs = [s \in Slots |-> Idle]

\* the handler's writes are committed and its response is sent
Respond(r) ==
    /\ users' = r.st.users
    /\ found' = r.st.found
    /\ lost' = r.st.lost
    /\ files' = r.st.files
    /\ uuid_ctr' = r.st.uuid_ctr
    /\ UNCHANGED reqs

signup ==
    \E name \in SignupNames, email \in RequestEmails :
        /\ Respond(signup_fn(St, name, email))

login ==
    \E email \in RequestEmails, token \in Tokens :
        /\ Respond(login_fn(St, email, token))

admin_signup ==
    \E name \in SignupNames, email \in AdminSignupEmails, admin_key \in AdminKeys :
        /\ Respond(admin_signup_fn(St, name, email, admin_key))

upload_found_item ==
    \E authorization \in AuthHeaders, description \in Descriptions, location \in Locations,
       date_found \in DateInputs, file \in UploadFiles, env \in OkEnvs :
        /\ uuid_ctr < MaxUploads
        /\ Respond(upload_found_item_fn(St, authorization, description, location,
                                        date_found, file, env))

upload_lost_item ==
    \E authorization \in AuthHeaders, description \in Descriptions, location \in Locations,
       date_lost \in DateInputs, file \in UploadFiles, env \in OkEnvs :
        /\ uuid_ctr < MaxUploads
        /\ Respond(upload_lost_item_fn(St, authorization, description, location,
                                       date_lost, file, env))

add_found_item ==
    \E authorization \in AuthHeaders, description \in Descriptions, location \in Locations,
       date_found \in DateInputs, file \in UploadFiles, env \in OkEnvs :
        /\ uuid_ctr < MaxUploads
        /\ Respond(add_found_item_fn(St, authorization, description, location,
                                     date_found, file, env))

approve_item ==
    \E authorization \in AuthHeaders, item_id \in ItemIds :
        /\ Respond(approve_item_fn(St, authorization, item_id))

reject_item ==
    \E authorization \in AuthHeaders, item_id \in ItemIds :
        /\ Respond(reject_item_fn(St, authorization, item_id))

approve_lost_item ==
    \E authorization \in AuthHeaders, item_id \in ItemIds :
        /\ Respond(approve_lost_item_fn(St, authorization, item_id))

reject_lost_item ==
    \E authorization \in AuthHeaders, item_id \in ItemIds :
        /\ Respond(reject_lost_item_fn(St, authorization, item_id))

delete_found_item ==
    \E authorization \in AuthHeaders, item_id \in ItemIds, env \in OkEnvs :
        /\ Respond(delete_found_item_fn(St, authorization, item_id, env))

delete_lost_item ==
    \E authorization \in AuthHeaders, item_id \in ItemIds, env \in OkEnvs :
        /\ Respond(delete_lost_item_fn(St, authorization, item_id, env))

\* the list handlers read only
get_found_items_list ==
    \E skip \in Skips, limit \in Limits, status_filter \in StatusFilters :
        /\ get_found_items_list_fn(St, skip, limit, status_filter).code \in {200, 422}
        /\ UNCHANGED vars

get_lost_items_list ==
    \E skip \in Skips, limit \in Limits, status_filter \in StatusFilters :
        /\ get_lost_items_list_fn(St, skip, limit, status_filter).code \in {200, 422}
        /\ UNCHANGED vars

admin_dashboard ==
    \E authorization \in AuthHeaders :
        /\ admin_dashboard_fn(St, authorization).code \in {200, 401, 403}
        /\ UNCHANGED vars

get_my_found_items ==
    \E authorization \in AuthHeaders, env \in OkEnvs :
        /\ get_my_found_items_fn(St, authorization, env).code \in {200, 401, 403, 404}
        /\ UNCHANGED vars

get_my_lost_items ==
    \E authorization \in AuthHeaders, env \in OkEnvs :
        /\ get_my_lost_items_fn(St, authorization, env).code \in {200, 401, 403, 404}
        /\ UNCHANGED vars

Next ==
    \/ signup
    \/ login
    \/ admin_signup
    \/ upload_found_item
    \/ upload_lost_item
    \/ add_found_item
    \/ approve_item
    \/ reject_item
    \/ approve_lost_item
    \/ reject_lost_item
    \/ delete_found_item
    \/ delete_lost_item
    \/ get_found_items_list
    \/ get_lost_items_list
    \/ admin_dashboard
    \/ get_my_found_items
    \/ get_my_lost_items

Spec == Init /\ [][Next]_vars

----------------------------------------------------------------------------
(* Account creation with two requests in flight: each of signup, login and *)
(* admin_signup reads the users table, and inserts in a later step         *)

\* the request of a slot after its lookup
AfterLookup(op, l) ==
    IF l.new.code # 0
    THEN [phase |-> "insert", op |-> op, email |-> l.new.email, new |-> l.new,
          code |-> 0, user |-> NoUser]
    ELSE [phase |-> "done", op |-> op, email |-> l.user.email, new |-> NoCreate,
          code |-> l.code, user |-> l.user]

signup_begin(s) ==
    \E name \in SignupNames, email \in RequestEmails :
        /\ reqs[s].phase # "insert"
        /\ reqs' = [reqs EXCEPT ![s] = AfterLookup("signup", signup_lookup(St, name, email))]
        /\ UNCHANGED <<users, found, lost, files, uuid_ctr>>

login_begin(s) ==
    \E email \in RequestEmails, token \in Tokens :
        /\ reqs[s].phase # "insert"
        /\ reqs' = [reqs EXCEPT ![s] = AfterLookup("login", login_lookup(St, email, token))]
        /\ UNCHANGED <<users, found, lost, files, uuid_ctr>>

admin_signup_begin(s) ==
    \E name \in SignupNames, email \in AdminSignupEmails, admin_key \in AdminKeys :
        /\ reqs[s].phase # "insert"
        /\ reqs' = [reqs EXCEPT ![s] =
                        AfterLookup("admin_signup",
                                    admin_signup_lookup(St, name, email, admin_key))]
        /\ UNCHANGED <<users, found, lost, files, uuid_ctr>>

create_user_step(s) ==
    /\ reqs[s].phase = "insert"
    /\ LET r == create_user_commit(St, reqs[s].new)
       IN /\ users' = r.st.users
          /\ reqs' = [reqs EXCEPT ![s] = [@ EXCEPT !.phase = "done", !.code = r.code,
                                                   !.user = r.user]]
    /\ UNCHANGED <<found, lost, files, uuid_ctr>>

NextRace ==
    \E s \in Slots :
        \/ signup_begin(s)
        \/ login_begin(s)
        \/ admin_signup_begin(s)
        \/ create_user_step(s)

SpecRace == Init /\ [][NextRace]_vars

----------------------------------------------------------------------------
(* The account and creation routes with fields that may be sent empty *)

upload_found_item_form ==
    \E authorization \in AuthHeaders, description \in FormDescriptions, location \in FormLocations,
       date_found \in DateInputs, file \in UploadFiles, env \in OkEnvs :
        /\ uuid_ctr < MaxUploads
        /\ Respond(upload_found_item_fn(St, authorization, description, location,
                                        date_found, file, env))

upload_lost_item_form ==
    \E authorization \in AuthHeaders, description \in FormDescriptions, location \in FormLocations,
       date_lost \in DateInputs, file \in UploadFiles, env \in OkEnvs :
        /\ uuid_ctr < MaxUploads
        /\ Respond(upload_lost_item_fn(St, authorization, description, location,
                                       date_lost, file, env))

add_found_item_form ==
    \E authorization \in AuthHeaders, description \in FormDescriptions, location \in FormLocations,
       date_found \in DateInputs, file \in UploadFiles, env \in OkEnvs :
        /\ uuid_ctr < MaxUploads
        /\ Respond(add_found_item_fn(St, authorization, description, location,
                                     date_found, file, env))

\* name: str of the signup requests accepts the empty string
FormNames == SignupNames \cup {""}

signup_form ==
    \E name \in FormNames, email \in RequestEmails :
        /\ Respond(signup_fn(St, name, email))

admin_signup_form ==
    \E name \in FormNames, email \in AdminSignupEmails, admin_key \in AdminKeys :
        /\ Respond(admin_signup_fn(St, name, email, admin_key))

NextForms ==
    \/ signup_form
    \/ login
    \/ admin_signup_form
    \/ upload_found_item_form
    \/ upload_lost_item_form
    \/ add_found_item_form

SpecForms == Init /\ [][NextForms]_vars

----------------------------------------------------------------------------
(* The account, creation, deletion and admin list routes when the file     *)
(* write, the unlink or the commit of a request can fail                   *)

upload_found_item_env ==
    \E authorization \in AuthHeaders, description \in Descriptions, location \in Locations,
       date_found \in DateInputs, file \in UploadFiles, env \in Envs :
        /\ uuid_ctr < MaxUploads
        /\ Respond(upload_found_item_fn(St, authorization, description, location, date_found, file, env))

upload_lost_item_env ==
    \E authorization \in AuthHeaders, description \in Descriptions, location \in Locations,
       date_lost \in DateInputs, file \in UploadFiles, env \in Envs :
        /\ uuid_ctr < MaxUploads
        /\ Respond(upload_lost_item_fn(St, authorization, description, location, date_lost, file, env))

add_found_item_env ==
    \E authorization \in AuthHeaders, description \in Descriptions, location \in Locations,
       date_found \in DateInputs, file \in UploadFiles, env \in Envs :
        /\ uuid_ctr < MaxUploads
        /\ Respond(add_found_item_fn(St, authorization, description, location, date_found, file, env))

delete_found_item_env ==
    \E authorization \in AuthHeaders, item_id \in ItemIds, env \in Envs :
        /\ Respond(delete_found_item_fn(St, authorization, item_id, env))

delete_lost_item_env ==
    \E authorization \in AuthHeaders, item_id \in ItemIds, env \in Envs :
        /\ Respond(delete_lost_item_fn(St, authorization, item_id, env))

get_pending_items ==
    \E authorization \in AuthHeaders, skip \in AdminSkips, limit \in AdminLimits :
        /\ get_pending_items_fn(St, authorization, skip, limit).code \in {200, 401, 403, 422}
        /\ UNCHANGED vars

get_approved_items ==
    \E authorization \in AuthHeaders, skip \in AdminSkips, limit \in AdminLimits :
        /\ get_approved_items_fn(St, authorization, skip, limit).code \in {200, 401, 403, 422}
        /\ UNCHANGED vars

get_rejected_items ==
    \E authorization \in AuthHeaders, skip \in AdminSkips, limit \in AdminLimits :
        /\ get_rejected_items_fn(St, authorization, skip, limit).code \in {200, 401, 403, 422}
        /\ UNCHANGED vars

get_all_items ==
    \E authorization \in AuthHeaders, skip \in AdminSkips, limit \in AdminLimits :
        /\ get_all_items_fn(St, authorization, skip, limit).code \in {200, 401, 403, 422}
        /\ UNCHANGED vars

get_pending_lost_items ==
    \E authorization \in AuthHeaders, skip \in AdminSkips, limit \in AdminLimits :
        /\ get_pending_lost_items_fn(St, authorization, skip, limit).code \in {200, 401, 403, 422}
        /\ UNCHANGED vars

NextFaults ==
    \/ signup
    \/ login
    \/ admin_signup
    \/ upload_found_item_env
    \/ upload_lost_item_env
    \/ add_found_item_env
    \/ delete_found_item_env
    \/ delete_lost_item_env
    \/ get_pending_items
    \/ get_approved_items
    \/ get_rejected_items
    \/ get_all_items
    \/ get_pending_lost_items

SpecFaults == Init /\ [][NextFaults]_vars

----------------------------------------------------------------------------
(* Found items with requests in flight: delete_found_item, approve_item    *)
(* and reject_item each load the row in one step and commit in a later     *)
(* one. One delete and one approve or reject are in flight at a time. A    *)
(* request refused before it loads a row changes nothing and leaves its    *)
(* slot as it was.                                                         *)

\* the slot of the owner's request and the slot of the admin's request
DeleteSlot == 1
ModerationSlot == 2

\* a request that holds the row it loaded and has not committed yet
Loaded(op, item_id, row) ==
    [phase |-> "loaded", op |-> op, item |-> item_id, row |-> row]

\* db_item.status = ...; db.commit() re-inserting a row that is gone, as
\* session.merge would
commit_status_merge(tbl, req, target, refresh) ==
    IF req.row.status = target
    THEN [code |-> IF refresh /\ req.item \notin DOMAIN tbl THEN 500 ELSE 200, tbl |-> tbl]
    ELSE IF req.item \in DOMAIN tbl
    THEN [code |-> 200, tbl |-> [tbl EXCEPT ![req.item].status = target]]
    ELSE [code |-> 200, tbl |-> (req.item :> [req.row EXCEPT !.status = target]) @@ tbl]

\* db_item.status = ...; db.commit(), and in approve_item
\* db.refresh(db_item): no UPDATE is sent when the status loaded is the new
\* one already; the UPDATE of a row that is gone raises StaleDataError and
\* the refresh of a row that is gone InvalidRequestError, and neither is
\* caught
commit_status(tbl, req, target, refresh) ==
    IF req.row.status = target
    THEN [code |-> IF refresh /\ req.item \notin DOMAIN tbl THEN 500 ELSE 200, tbl |-> tbl]
    ELSE IF req.item \in DOMAIN tbl
    THEN [code |-> 200, tbl |-> [tbl EXCEPT ![req.item].status = target]]
    ELSE [code |-> 500, tbl |-> tbl]

\* the caller, the row and the owner are checked and the file is removed
delete_found_item_begin ==
    \E authorization \in AuthHeaders, item_id \in ItemIds, env \in OkEnvs :
        LET g == owner_gate(St, authorization, env)
        IN /\ reqs[DeleteSlot].phase = "idle"
           /\ g.code = 0
           /\ item_id \in DOMAIN found
           /\ found[item_id].user_id = g.db_user.id
           /\ reqs' = [reqs EXCEPT ![DeleteSlot] =
                          Loaded("delete_found_item", item_id, found[item_id])]
           /\ files' = remove_file(files, found[item_id].image_url, env)
           /\ UNCHANGED <<users, found, lost, uuid_ctr>>

\* db.delete(db_item); db.commit(): DELETE ... WHERE id = ?, which only
\* warns when it matches no row
delete_found_item_commit ==
    /\ reqs[DeleteSlot].phase = "loaded"
    /\ found' = IF reqs[DeleteSlot].item \in DOMAIN found
                THEN Without(found, reqs[DeleteSlot].item)
                ELSE found
    /\ reqs' = [reqs EXCEPT ![DeleteSlot] = Idle]
    /\ UNCHANGED <<users, lost, files, uuid_ctr>>

\* approve_item and reject_item up to the row they load
approve_item_begin ==
    \E authorization \in AuthHeaders, item_id \in ItemIds :
        /\ reqs[ModerationSlot].phase = "idle"
        /\ admin_gate(St, authorization).code = 0
        /\ item_id \in DOMAIN found
        /\ reqs' = [reqs EXCEPT ![ModerationSlot] =
                       Loaded("approve_item", item_id, found[item_id])]
        /\ UNCHANGED <<users, found, lost, files, uuid_ctr>>

reject_item_begin ==
    \E authorization \in AuthHeaders, item_id \in ItemIds :
        /\ reqs[ModerationSlot].phase = "idle"
        /\ admin_gate(St, authorization).code = 0
        /\ item_id \in DOMAIN found
        /\ reqs' = [reqs EXCEPT ![ModerationSlot] =
                       Loaded("reject_item", item_id, found[item_id])]
        /\ UNCHANGED <<users, found, lost, files, uuid_ctr>>

approve_item_commit ==
    /\ reqs[ModerationSlot].phase = "loaded"
    /\ reqs[ModerationSlot].op = "approve_item"
    /\ found' = commit_status(found, reqs[ModerationSlot], "approved", TRUE).tbl
    /\ reqs' = [reqs EXCEPT ![ModerationSlot] = Idle]
    /\ UNCHANGED <<users, lost, files, uuid_ctr>>

reject_item_commit ==
    /\ reqs[ModerationSlot].phase = "loaded"
    /\ reqs[ModerationSlot].op = "reject_item"
    /\ found' = commit_status(found, reqs[ModerationSlot], "rejected", FALSE).tbl
    /\ reqs' = [reqs EXCEPT ![ModerationSlot] = Idle]
    /\ UNCHANGED <<users, lost, files, uuid_ctr>>

NextInFlight ==
    \/ signup
    \/ admin_signup
    \/ upload_found_item
    \/ delete_found_item_begin
    \/ delete_found_item_commit
    \/ approve_item_begin
    \/ approve_item_commit
    \/ reject_item_begin
    \/ reject_item_commit

SpecInFlight == Init /\ [][NextInFlight]_vars

----------------------------------------------------------------------------
(* Properties *)

\* the account a verified token belongs to (NoUser when there is none)
Caller(token) == get_user_by_email(users, get_user_from_token(token).email)

\* a header an admin account stands behind
IsAdminHeader(h) == Caller(extract_token_from_header(h)).role = "admin"

FoundOwner(id) == users[found[id].user_id]
LostOwner(id) == users[lost[id].user_id]

\* C1: approve and reject, Found and Lost, answer 403 to every caller whose
\* account is not an admin, for every item id, existing or not, and leave
\* the state as it was.
C1_NonAdminModerationForbidden ==
    \A h \in AuthHeaders, id \in ItemIds :
        LET actor == Caller(extract_token_from_header(h))
        IN (actor.id # 0 /\ actor.role # "admin") =>
              \A r \in {approve_item_fn(St, h, id), reject_item_fn(St, h, id),
                         approve_lost_item_fn(St, h, id), reject_lost_item_fn(St, h, id)} :
                  r.code = 403 /\ r.st = St

\* a non-admin account is refused on an item that exists and on an id that
\* does not
C1_Witness ==
    \E h \in AuthHeaders, id \in DOMAIN found, missing \in ItemIds \ DOMAIN found :
        LET actor == Caller(extract_token_from_header(h))
        IN /\ actor.id # 0 /\ actor.role = "user"
           /\ found[id].status = "pending"
           /\ approve_item_fn(St, h, id).code = 403
           /\ reject_item_fn(St, h, missing).code = 403

\* C2: delete_listing on an existing listing succeeds only for the account
\* that owns it; every other account, admins included, gets 403 and the
\* record and the files stay as they were.
C2_DeleteOwnerOnly ==
    \A h \in AuthHeaders, env \in Envs :
        LET actor == Caller(security(h))
        IN actor.id # 0 =>
            /\ \A id \in DOMAIN found :
                  LET r == delete_found_item_fn(St, h, id, env)
                  IN /\ r.code = 200 => actor.id = found[id].user_id
                     /\ actor.id # found[id].user_id => r.code = 403 /\ r.st = St
            /\ \A id \in DOMAIN lost :
                  LET r == delete_lost_item_fn(St, h, id, env)
                  IN /\ r.code = 200 => actor.id = lost[id].user_id
                     /\ actor.id # lost[id].user_id => r.code = 403 /\ r.st = St

\* an admin who does not own a listing is refused, its owner is not
C2_Witness ==
    \E h, o \in AuthHeaders, id \in DOMAIN found, env \in OkEnvs :
        /\ Caller(security(h)).role = "admin"
        /\ Caller(security(h)).id # found[id].user_id
        /\ delete_found_item_fn(St, h, id, env).code = 403
        /\ Caller(security(o)).id = found[id].user_id
        /\ delete_found_item_fn(St, o, id, env).code = 200

ViaAdminRoute(row) == row.image_url[2] = "uploads/found_items"

C4_StatusInVariantSet ==
    /\ \A id \in DOMAIN found : found[id].status \in {"pending", "approved", "rejected", "claimed"}
    /\ \A id \in DOMAIN lost : lost[id].status \in {"pending", "approved", "rejected", "found"}

\* items of both tables after creation, approval, rejection and deletion
C4_Witness ==
    /\ \E id \in DOMAIN found : found[id].status = "rejected" /\ ViaAdminRoute(found[id])
    /\ \E id \in DOMAIN lost : lost[id].status = "rejected"

\* C5 as stated: a listing that is approved is never rejected by a later
\* step; reject changes pending listings only.
C5_ApprovedNeverRejected ==
    [][ /\ \A id \in DOMAIN found \cap DOMAIN found' :
              found[id].status = "approved" => found'[id].status # "rejected"
        /\ \A id \in DOMAIN lost \cap DOMAIN lost' :
              lost[id].status = "approved" => lost'[id].status # "rejected"
      ]_vars

\* C5 (amended): reject by an admin succeeds on every existing listing,
\* pending, approved or already rejected, and leaves it rejected with
\* everything else as it was.
C5_RejectFromAnyStatus ==
    \A h \in AuthHeaders :
        IsAdminHeader(h) =>
            /\ \A id \in DOMAIN found :
                  LET r == reject_item_fn(St, h, id)
                  IN /\ r.code = 200
                     /\ r.st = [St EXCEPT !.found[id].status = "rejected"]
            /\ \A id \in DOMAIN lost :
                  LET r == reject_lost_item_fn(St, h, id)
                  IN /\ r.code = 200
                     /\ r.st = [St EXCEPT !.lost[id].status = "rejected"]

\* an admin rejects an approved Found item and an approved Lost item
C5_Witness ==
    \E h \in AuthHeaders, f \in DOMAIN found, l \in DOMAIN lost :
        /\ IsAdminHeader(h)
        /\ found[f].status = "approved" /\ lost[l].status = "approved"
        /\ reject_item_fn(St, h, f).st.found[f].status = "rejected"
        /\ reject_lost_item_fn(St, h, l).st.lost[l].status = "rejected"

\* C6 as stated: a listing that is rejected is never approved by a later
\* step; approve moves pending listings only.
C6_RejectedNeverApproved ==
    [][ /\ \A id \in DOMAIN found \cap DOMAIN found' :
              found[id].status = "rejected" => found'[id].status # "approved"
        /\ \A id \in DOMAIN lost \cap DOMAIN lost' :
              lost[id].status = "rejected" => lost'[id].status # "approved"
      ]_vars

\* C6 (amended): approve by an admin succeeds on every existing listing,
\* pending, rejected or already approved, and leaves it approved with
\* everything else as it was.
C6_ApproveFromAnyStatus ==
    \A h \in AuthHeaders :
        IsAdminHeader(h) =>
            /\ \A id \in DOMAIN found :
                  LET r == approve_item_fn(St, h, id)
                  IN /\ r.code = 200
                     /\ r.st = [St EXCEPT !.found[id].status = "approved"]
            /\ \A id \in DOMAIN lost :
                  LET r == approve_lost_item_fn(St, h, id)
                  IN /\ r.code = 200
                     /\ r.st = [St EXCEPT !.lost[id].status = "approved"]

\* an admin approves a rejected Found item and a rejected Lost item
C6_Witness ==
    \E h \in AuthHeaders, f \in DOMAIN found, l \in DOMAIN lost :
        /\ IsAdminHeader(h)
        /\ found[f].status = "rejected" /\ lost[l].status = "rejected"
        /\ approve_item_fn(St, h, f).st.found[f].status = "approved"
        /\ approve_lost_item_fn(St, h, l).st.lost[l].status = "approved"

\* C7: no step takes a listing that is approved or rejected back to
\* pending.
C7_NeverBackToPending ==
    [][ /\ \A id \in DOMAIN found \cap DOMAIN found' :
              found[id].status \in {"approved", "rejected"} => found'[id].status # "pending"
        /\ \A id \in DOMAIN lost \cap DOMAIN lost' :
              lost[id].status \in {"approved", "rejected"} => lost'[id].status # "pending"
      ]_vars

\* reviewed listings of both tables, one approved and one rejected, that
\* an admin can still act on
C7_Witness ==
    \E h \in AuthHeaders, f \in DOMAIN found, l \in DOMAIN lost :
        /\ IsAdminHeader(h)
        /\ ~ViaAdminRoute(found[f]) /\ found[f].status = "approved"
        /\ lost[l].status = "rejected"
        /\ reject_lost_item_fn(St, h, l).st.lost[l].status = "rejected"

\* C8: for an admin and an existing listing, a second approve succeeds and
\* leaves the state the first approve produced.
C8_ApproveIdempotent ==
    \A h \in AuthHeaders :
        IsAdminHeader(h) =>
            /\ \A id \in DOMAIN found :
                  LET once == approve_item_fn(St, h, id)
                      twice == approve_item_fn(once.st, h, id)
                  IN once.code = 200 /\ twice.code = 200 /\ twice.st = once.st
            /\ \A id \in DOMAIN lost :
                  LET once == approve_lost_item_fn(St, h, id)
                      twice == approve_lost_item_fn(once.st, h, id)
                  IN once.code = 200 /\ twice.code = 200 /\ twice.st = once.st

\* the first approve of a pending Found item changes the state, the second
\* does not
C8_Witness ==
    \E h \in AuthHeaders, f \in DOMAIN found :
        /\ IsAdminHeader(h)
        /\ found[f].status = "pending"
        /\ approve_item_fn(St, h, f).st # St
        /\ approve_item_fn(approve_item_fn(St, h, f).st, h, f).code = 200

\* C9: when two signup or login requests for the same unknown email both
\* pass the existence lookup before either commits its insert, the
\* directory ends with exactly one account for the email, neither request
\* answers with an error, and both return the same account.
C9_ConcurrentCreateOneRow ==
    \A s, t \in Slots :
        ( /\ s # t
          /\ reqs[s].phase = "done" /\ reqs[t].phase = "done"
          /\ reqs[s].op \in {"signup", "login"} /\ reqs[t].op \in {"signup", "login"}
          /\ reqs[s].new.code # 0 /\ reqs[t].new.code # 0
          /\ reqs[s].new.email = reqs[t].new.email )
        => /\ Cardinality({i \in DOMAIN users : users[i].email = reqs[s].new.email}) = 1
           /\ reqs[s].code < 400 /\ reqs[t].code < 400
           /\ reqs[s].user = reqs[t].user

\* C10: whenever a list request is answered with a page, the page has at
\* most limit items, every item is a row of the table that matches the
\* status filter, and total is the number of rows matching the filter,
\* whatever skip and limit are.
C10_PageWithinLimitTotalOfFilter ==
    \A skip \in Skips, limit \in Limits, status_filter \in StatusFilters :
        \A q \in {<<get_found_items_list_fn(St, skip, limit, status_filter), found>>,
                   <<get_lost_items_list_fn(St, skip, limit, status_filter), lost>>} :
            LET r == q[1]
                tbl == q[2]
                matching == {i \in DOMAIN tbl :
                                status_filter = "all" \/ tbl[i].status = status_filter}
            IN r.code = 200 =>
                /\ Len(r.body.items) <= limit
                /\ \A k \in 1..Len(r.body.items) :
                      /\ r.body.items[k].id \in matching
                      /\ r.body.items[k] = Row(tbl, r.body.items[k].id)
                /\ r.body.total = Cardinality(matching)

\* an approved and a pending Found item: a page of one item with a total
\* of two, a filtered page with a total of one, and a page past the end
\* that is empty with the total unchanged
C10_Witness ==
    LET first == get_found_items_list_fn(St, 0, 1, "all")
        filtered == get_found_items_list_fn(St, 0, 2, "approved")
        beyond == get_found_items_list_fn(St, 2, 1, "all")
    IN /\ first.code = 200 /\ Len(first.body.items) = 1 /\ first.body.total = 2
       /\ filtered.code = 200 /\ Len(filtered.body.items) = 1 /\ filtered.body.total = 1
       /\ beyond.code = 200 /\ Len(beyond.body.items) = 0 /\ beyond.body.total = 2

\* C11: every count the dashboard reports to an admin is the number of
\* listings that have the status now, 0 when there are none, and the
\* approval of a pending listing lowers the pending count by one, raises
\* the approved count by one and keeps the total.
C11_DashboardCountsCurrentStore ==
    \A h \in AuthHeaders :
        IsAdminHeader(h) =>
            LET r == admin_dashboard_fn(St, h)
                s0 == r.statistics
            IN /\ r.code = 200
               /\ s0.pending_items = Cardinality({i \in DOMAIN found : found[i].status = "pending"})
               /\ s0.approved_items = Cardinality({i \in DOMAIN found : found[i].status = "approved"})
               /\ s0.rejected_items = Cardinality({i \in DOMAIN found : found[i].status = "rejected"})
               /\ s0.total_items = Cardinality(DOMAIN found)
               /\ s0.pending_lost_items = Cardinality({i \in DOMAIN lost : lost[i].status = "pending"})
               /\ s0.approved_lost_items = Cardinality({i \in DOMAIN lost : lost[i].status = "approved"})
               /\ s0.total_lost_items = Cardinality(DOMAIN lost)
               /\ \A id \in DOMAIN found :
                     found[id].status = "pending" =>
                         LET s1 == admin_dashboard_fn(approve_item_fn(St, h, id).st, h).statistics
                         IN /\ s1.pending_items = s0.pending_items - 1
                            /\ s1.approved_items = s0.approved_items + 1
                            /\ s1.total_items = s0.total_items
               /\ \A id \in DOMAIN lost :
                     lost[id].status = "pending" =>
                         LET s1 == admin_dashboard_fn(approve_lost_item_fn(St, h, id).st, h).statistics
                         IN /\ s1.pending_lost_items = s0.pending_lost_items - 1
                            /\ s1.approved_lost_items = s0.approved_lost_items + 1
                            /\ s1.total_lost_items = s0.total_lost_items

\* an admin reads the dashboard with a pending and a rejected Found item
\* and no Lost item at all, then approves the pending one
C11_Witness ==
    \E h \in AuthHeaders, a, b \in DOMAIN found :
        /\ IsAdminHeader(h)
        /\ found[a].status = "pending" /\ found[b].status = "rejected"
        /\ lost = <<>>
        /\ admin_dashboard_fn(St, h).statistics.total_lost_items = 0
        /\ admin_dashboard_fn(approve_item_fn(St, h, a).st, h).statistics.approved_items = 1

\* C12: the dashboard an admin gets holds the pending, total, approved and
\* rejected count of the Found items and the same four counts of the Lost
\* items, each computed over its own table.
C12_FourCountsPerVariant ==
    \A h \in AuthHeaders :
        IsAdminHeader(h) =>
            LET stats == admin_dashboard_fn(St, h).statistics
            IN /\ {"pending_items", "total_items", "approved_items", "rejected_items",
                    "pending_lost_items", "total_lost_items", "approved_lost_items",
                    "rejected_lost_items"} \subseteq DOMAIN stats
               /\ stats["rejected_items"] = CountStatus(found, "rejected")
               /\ stats["rejected_lost_items"] = CountStatus(lost, "rejected")

\* some row present before the step is gone or different after it
ListingChanged(tbl, after) == \E id \in DOMAIN tbl : id \notin DOMAIN after \/ after[id] # tbl[id]

\* C13: a step that changes or removes an existing listing is the
\* successful approve or reject of a caller whose account is an admin when
\* the call is made, or the successful delete of the listing by the
\* account that owns it.
C13_ChangedOnlyByAdminOrOwner ==
    [][ (ListingChanged(found, found') \/ ListingChanged(lost, lost')) =>
          \/ \E h \in AuthHeaders, id \in ItemIds :
                /\ IsAdminHeader(h)
                /\ \E r \in {approve_item_fn(St, h, id), reject_item_fn(St, h, id),
                              approve_lost_item_fn(St, h, id), reject_lost_item_fn(St, h, id)} :
                      r.code = 200 /\ St' = r.st
          \/ \E h \in AuthHeaders, env \in Envs, id \in DOMAIN found :
                /\ Caller(security(h)).id = found[id].user_id
                /\ delete_found_item_fn(St, h, id, env).code = 200
                /\ St' = delete_found_item_fn(St, h, id, env).st
          \/ \E h \in AuthHeaders, env \in Envs, id \in DOMAIN lost :
                /\ Caller(security(h)).id = lost[id].user_id
                /\ delete_lost_item_fn(St, h, id, env).code = 200
                /\ St' = delete_lost_item_fn(St, h, id, env).st
      ]_vars

\* two items were uploaded; one was approved by an admin who does not own
\* it, the other was deleted by its owner
C13_Witness ==
    /\ uuid_ctr = 2
    /\ Cardinality(DOMAIN found) + Cardinality(DOMAIN lost) = 1
    /\ \E id \in DOMAIN found :
          /\ found[id].status = "approved" /\ ~ViaAdminRoute(found[id])
          /\ FoundOwner(id).role = "user"

\* admin signup for an email that has an account is refused and changes
\* nothing; signup and login for the email of an admin account return the
\* account as an admin and change nothing
RoleKeptByAccountRoutes ==
    /\ \A name \in SignupNames, email \in AdminSignupEmails, admin_key \in AdminKeys :
          user_exists(users, email) =>
              LET r == admin_signup_fn(St, name, email, admin_key)
              IN r.code \in {400, 401} /\ r.st = St
    /\ \A name \in SignupNames, email \in RequestEmails, token \in Tokens :
          get_user_by_email(users, email).role = "admin" =>
              \A r \in {signup_fn(St, name, email), login_fn(St, email, token)} :
                  /\ r.st = St
                  /\ r.code < 400 => r.user.role = "admin"

\* C14: no step changes the role of an account that exists, or removes the
\* account; admin signup for a taken email fails without effect, and
\* signup or login for an admin's email leaves the role admin.
C14_RoleNeverChanged ==
    /\ []RoleKeptByAccountRoutes
    /\ [][\A id \in DOMAIN users :
              id \in DOMAIN users' /\ users'[id].role = users[id].role]_vars

\* the same email has a user account, for which admin signup with the
\* right key is refused, next to an account that logs in again
C14_Witness ==
    /\ get_user_by_email(users, E2).role = "user"
    /\ admin_signup_fn(St, "Ali", E2, ADMIN_KEY).code = 400
    /\ get_user_by_email(users, E1).role = "user"
    /\ login_fn(St, E1, "tokA").user.role = "user"
    /\ found # <<>>

\* no row of the list carries the id
Excludes(list, id) == \A k \in 1..Len(list.body.items) : list.body.items[k].id # id

\* C15: when the commit goes through, the owner's delete answers 200 and
\* removes the record, so that the owner's own list and the public lists
\* read afterwards, whatever the filter, exclude it, and removes the item's file when the file
\* can be removed; when the file cannot be removed the record is removed
\* all the same and the answer is still 200.
C15_OwnerDeleteRemovesRecord ==
    \A h \in AuthHeaders, env \in {e \in Envs : e.db_ok} :
        /\ \A id \in DOMAIN found :
              Caller(security(h)).id = found[id].user_id =>
                  LET r == delete_found_item_fn(St, h, id, env)
                  IN /\ r.code = 200
                     /\ id \notin DOMAIN r.st.found
                     /\ r.st.users = users /\ r.st.lost = lost
                     /\ Excludes(get_my_found_items_fn(r.st, h, env), id)
                     /\ \A skip \in {0, 1}, status_filter \in StatusFilters :
                           Excludes(get_found_items_list_fn(r.st, skip, 50, status_filter), id)
                     /\ env.rm_ok => LStrip(found[id].image_url) \notin r.st.files
        /\ \A id \in DOMAIN lost :
              Caller(security(h)).id = lost[id].user_id =>
                  LET r == delete_lost_item_fn(St, h, id, env)
                  IN /\ r.code = 200
                     /\ id \notin DOMAIN r.st.lost
                     /\ r.st.users = users /\ r.st.found = found
                     /\ Excludes(get_my_lost_items_fn(r.st, h, env), id)
                     /\ \A skip \in {0, 1}, status_filter \in StatusFilters :
                           Excludes(get_lost_items_list_fn(r.st, skip, 50, status_filter), id)
                     /\ env.rm_ok => LStrip(lost[id].image_url) \notin r.st.files

\* the owner of two Found items, both in the owner's list, deletes one
\* while its file cannot be removed: the record goes, the file stays
C15_Witness ==
    \E h \in AuthHeaders, env \in Envs, id \in DOMAIN found :
        /\ env.db_ok /\ ~env.rm_ok
        /\ Caller(security(h)).id = found[id].user_id
        /\ get_my_found_items_fn(St, h, env).body.total = 2
        /\ LStrip(found[id].image_url) \in files
        /\ delete_found_item_fn(St, h, id, env).code = 200
        /\ LStrip(found[id].image_url) \in delete_found_item_fn(St, h, id, env).st.files
        /\ get_my_found_items_fn(delete_found_item_fn(St, h, id, env).st, h, env).body.total = 1

\* C16: for an id that no Found item has, approve_item and reject_item
\* called by an admin and delete_found_item called by any account answer
\* 404 and leave rows and files as they were; the same holds of the Lost
\* routes for an id that no Lost item has.
C16_MissingListingNotFound ==
    \A h \in AuthHeaders, id \in ItemIds :
        /\ id \notin DOMAIN found =>
              /\ IsAdminHeader(h) =>
                    \A r \in {approve_item_fn(St, h, id), reject_item_fn(St, h, id)} :
                        r.code = 404 /\ r.st = St
              /\ Caller(security(h)).id # 0 =>
                    \A env \in Envs :
                        LET r == delete_found_item_fn(St, h, id, env)
                        IN r.code = 404 /\ r.st = St
        /\ id \notin DOMAIN lost =>
              /\ IsAdminHeader(h) =>
                    \A r \in {approve_lost_item_fn(St, h, id), reject_lost_item_fn(St, h, id)} :
                        r.code = 404 /\ r.st = St
              /\ Caller(security(h)).id # 0 =>
                    \A env \in Envs :
                        LET r == delete_lost_item_fn(St, h, id, env)
                        IN r.code = 404 /\ r.st = St

\* an id that only a Lost item has: the admin's approve_item and the
\* owner's delete_found_item of it answer 404
C16_Witness ==
    \E a, o \in AuthHeaders, id \in DOMAIN lost \ DOMAIN found, env \in OkEnvs :
        /\ IsAdminHeader(a)
        /\ approve_item_fn(St, a, id).code = 404
        /\ reject_item_fn(St, a, id).code = 404
        /\ Caller(security(o)).id = lost[id].user_id
        /\ Caller(security(o)).role = "user"
        /\ delete_found_item_fn(St, o, id, env).code = 404

\* C17: no Found item ever has status claimed and no Lost item ever has
\* status found.
C17_TerminalStatusUnreachable ==
    /\ \A id \in DOMAIN found : found[id].status # "claimed"
    /\ \A id \in DOMAIN lost : lost[id].status # "found"

\* reviewed items in both tables, while the lists filtered by claimed and
\* by found are accepted and empty
C17_Witness ==
    /\ \E f \in DOMAIN found : found[f].status = "rejected" /\ ~ViaAdminRoute(found[f])
    /\ \E l \in DOMAIN lost : lost[l].status = "approved"
    /\ get_found_items_list_fn(St, 0, 2, "claimed") = [code |-> 200, body |-> NoList]
    /\ get_lost_items_list_fn(St, 0, 2, "found") = [code |-> 200, body |-> NoList]

\* the user_id of every item is the id of an account
OwnersExist ==
    /\ \A id \in DOMAIN found : found[id].user_id \in DOMAIN users
    /\ \A id \in DOMAIN lost : lost[id].user_id \in DOMAIN users

\* C18: in every state the user_id of every item is the id of an account
\* in the users table; no step changes the user_id of an item that stays,
\* and no step removes an account.
C18_OwnerReferencesAccount ==
    /\ []OwnersExist
    /\ [][ /\ \A id \in DOMAIN found \cap DOMAIN found' :
                 found'[id].user_id = found[id].user_id
           /\ \A id \in DOMAIN lost \cap DOMAIN lost' :
                 lost'[id].user_id = lost[id].user_id
           /\ DOMAIN users \subseteq DOMAIN users'
         ]_vars

\* items of two different accounts, an admin and a user, one of them
\* reviewed since it was created
C18_Witness ==
    \E f \in DOMAIN found, l \in DOMAIN lost :
        /\ found[f].user_id # lost[l].user_id
        /\ FoundOwner(f).role = "user" /\ LostOwner(l).role = "admin"
        /\ found[f].status = "rejected"

\* C19: a creation request whose description or location is empty or
\* whose date does not parse is refused with a 4xx status and leaves rows,
\* files and the file name counter as they were; when the caller passes
\* the credential checks and the file is acceptable, the status is 422 for
\* an empty field and 400 for the date.
C19_InvalidFormCreatesNothing ==
    \A h \in AuthHeaders, description \in FormDescriptions, location \in FormLocations,
       date \in DateInputs, file \in UploadFiles, env \in Envs :
        LET blank == description = "" \/ location = ""
            invalid_input == IF blank THEN 422 ELSE 400
            uploads == {upload_found_item_fn(St, h, description, location, date, file, env),
                        upload_lost_item_fn(St, h, description, location, date, file, env)}
            added == add_found_item_fn(St, h, description, location, date, file, env)
        IN (blank \/ ~fromisoformat(date).ok) =>
              /\ \A r \in uploads \cup {added} : r.code \in 400..499 /\ r.st = St
              /\ ( /\ Caller(security(h)).id # 0
                    /\ validate_image_file(file.filename)
                    /\ validate_file_size(file.size, MAX_FILE_SIZE_MB) )
                 => \A r \in uploads : r.code = invalid_input
              /\ (IsAdminHeader(h) /\ file.content_type \in allowed_types /\ file.size <= 5242880)
                 => added.code = invalid_input

\* an account that holds a listing sends the same file again: with an
\* empty description it gets 422, with an empty location 422, with a date
\* that does not parse 400, and with the form filled in 201
C19_Witness ==
    \E h \in AuthHeaders, file \in UploadFiles, env \in OkEnvs, id \in DOMAIN lost :
        /\ Caller(security(h)).id = lost[id].user_id
        /\ uuid_ctr < MaxUploads
        /\ upload_found_item_fn(St, h, "", "Library", "2024-01-15T14:30:00", file, env).code = 422
        /\ upload_lost_item_fn(St, h, "Blue backpack", "", "2024-01-15T14:30:00", file, env).code = 422
        /\ upload_lost_item_fn(St, h, "Blue backpack", "Library", "15/01/2024", file, env).code = 400
        /\ upload_lost_item_fn(St, h, "Blue backpack", "Library", "2024-01-15T14:30:00", file, env).code = 201

\* the users table after exactly one account [name, email, role] was added
OneAccountAdded(before, after, name, email, role) ==
    \E id \in DOMAIN after \ DOMAIN before :
        /\ DOMAIN after = DOMAIN before \cup {id}
        /\ \A i \in DOMAIN before : after[i] = before[i]
        /\ after[id] = [id |-> id, name |-> name, email |-> email, role |-> role]

\* what resolve-or-create is to do with the claims [name, email]
ResolvedOrCreated(r, name, email) ==
    LET existing == get_user_by_email(users, email)
        expected_name == IF name # "" THEN name ELSE EmailParts(email).local
    IN /\ r.code < 400
       /\ IF existing.id # 0
          THEN r.user = existing /\ r.st = St
          ELSE /\ OneAccountAdded(users, r.st.users, expected_name, email, "user")
               /\ r.user = get_user_by_email(r.st.users, email)

\* C20: signup with a name and a well-formed email, and login with a
\* token whose verified claims carry the email, return the account the
\* email has, unchanged and without creating anything, or else create
\* exactly one account with role user whose name is the name of the claims
\* or, when that is absent, the local part of the email.
C20_ResolveOrCreate ==
    /\ \A name \in FormNames, email \in RequestEmails :
          validate_iba_email(email) => ResolvedOrCreated(signup_fn(St, name, email), name, email)
    /\ \A email \in RequestEmails, token \in Tokens :
          LET token_user == get_user_from_token(token)
          IN (validate_iba_email(email) /\ token_user.ok /\ token_user.email = email) =>
                ResolvedOrCreated(login_fn(St, email, token), token_user.name, email)

\* a header that carries no token the identity provider accepts: absent,
\* not "Bearer <token>", or with a token whose verification raises
NoCredential(h) == ~get_user_from_token(extract_token_from_header(h)).ok

\* C21: with a missing, malformed or refused credential, create, delete,
\* the caller's own lists, approve, reject, the admin lists and the
\* dashboard all answer 401 and leave the users, the items and the files
\* as they were (forms filled in, skip and limit within their ranges).
C21_UnauthenticatedWithoutCredential ==
    \A h \in AuthHeaders, env \in Envs :
        NoCredential(h) =>
            /\ \A description \in Descriptions, location \in Locations, date \in DateInputs,
                  file \in UploadFiles :
                  \A r \in {upload_found_item_fn(St, h, description, location, date, file, env),
                            upload_lost_item_fn(St, h, description, location, date, file, env),
                            add_found_item_fn(St, h, description, location, date, file, env)} :
                      r.code = 401 /\ r.st = St
            /\ \A item_id \in ItemIds :
                  \A r \in {delete_found_item_fn(St, h, item_id, env),
                            delete_lost_item_fn(St, h, item_id, env),
                            approve_item_fn(St, h, item_id), reject_item_fn(St, h, item_id),
                            approve_lost_item_fn(St, h, item_id),
                            reject_lost_item_fn(St, h, item_id)} :
                      r.code = 401 /\ r.st = St
            /\ get_my_found_items_fn(St, h, env).code = 401
            /\ get_my_lost_items_fn(St, h, env).code = 401
            /\ \A skip \in {0, 1}, limit \in {1, 20} :
                  /\ get_pending_items_fn(St, h, skip, limit).code = 401
                  /\ get_approved_items_fn(St, h, skip, limit).code = 401
                  /\ get_rejected_items_fn(St, h, skip, limit).code = 401
                  /\ get_all_items_fn(St, h, skip, limit).code = 401
                  /\ get_pending_lost_items_fn(St, h, skip, limit).code = 401
            /\ admin_dashboard_fn(St, h).code = 401

\* C22: a login whose token the identity provider refuses never succeeds,
\* whether the email of the request has an account or not.
C22_LoginNeedsAcceptedToken ==
    \A email \in RequestEmails, token \in Tokens :
        ~get_user_from_token(token).ok => login_fn(St, email, token).code >= 400

\* C23: when the file of a new item is written and the insert of its
\* record then fails, the request answers with an error, no record is
\* added, and the file just written is removed again.
C23_FailedInsertRemovesFile ==
    \A h \in AuthHeaders, description \in Descriptions, location \in Locations,
       date \in DateInputs, file \in UploadFiles, env \in Envs :
        (env.disk_ok /\ ~env.db_ok) =>
            \A r \in {upload_found_item_fn(St, h, description, location, date, file, env),
                      upload_lost_item_fn(St, h, description, location, date, file, env),
                      add_found_item_fn(St, h, description, location, date, file, env)} :
                /\ r.code >= 400
                /\ r.st.found = found
                /\ r.st.lost = lost
                /\ r.st.files = files

\* C24: no state, the states after a delete that failed part-way
\* included, holds a record whose image_url names a file that is no longer
\* there.
C24_RecordFileExists ==
    /\ \A id \in DOMAIN found : LStrip(found[id].image_url) \in files
    /\ \A id \in DOMAIN lost : LStrip(lost[id].image_url) \in files

\* C25: the public lists accept every status an item of the kind can have
\* (Found: pending, approved, rejected, claimed; Lost: pending, approved,
\* rejected, found) and "all", and return exactly the items with that
\* status, or all items for "all".
C25_EveryStatusAccepted ==
    /\ \A status_filter \in {"pending", "approved", "rejected", "claimed", "all"} :
          LET r == get_found_items_list_fn(St, 0, 50, status_filter)
          IN /\ r.code = 200
             /\ r.body.items = FilterRows(found, status_filter)
    /\ \A status_filter \in {"pending", "approved", "rejected", "found", "all"} :
          LET r == get_lost_items_list_fn(St, 0, 50, status_filter)
          IN /\ r.code = 200
             /\ r.body.items = FilterRows(lost, status_filter)

KeptFields == {"user_id", "description", "location", "date", "image_url", "created_at"}

\* the table after differs from the table before in the status of row id
\* at most
OnlyStatusOf(before, after, id) ==
    /\ DOMAIN after = DOMAIN before
    /\ \A f \in KeptFields : after[id][f] = before[id][f]
    /\ \A j \in DOMAIN before \ {id} : after[j] = before[j]

\* C27: a successful approve or reject of item N of one kind changes the
\* status of that item and nothing else: its user_id, description,
\* location, date, image_url and created_at, the other items of the kind,
\* every item of the other kind, the one with id N included, the files and
\* the accounts stay as they were.
C27_ModerationFrame ==
    \A h \in AuthHeaders, item_id \in ItemIds :
        /\ \A r \in {approve_item_fn(St, h, item_id), reject_item_fn(St, h, item_id)} :
              r.code = 200 =>
                  /\ OnlyStatusOf(found, r.st.found, item_id)
                  /\ r.st.lost = lost
                  /\ r.st.files = files
                  /\ r.st.users = users
        /\ \A r \in {approve_lost_item_fn(St, h, item_id), reject_lost_item_fn(St, h, item_id)} :
              r.code = 200 =>
                  /\ OnlyStatusOf(lost, r.st.lost, item_id)
                  /\ r.st.found = found
                  /\ r.st.files = files
                  /\ r.st.users = users

\* a found item and a lost item carry the same id, both with their files;
\* the lost one has been approved while the found one of another creation
\* time is still pending
C27_Witness ==
    \E id \in DOMAIN found \cap DOMAIN lost :
        /\ lost[id].status = "approved"
        /\ found[id].status = "pending"
        /\ found[id].created_at # lost[id].created_at
        /\ LStrip(found[id].image_url) \in files
        /\ LStrip(lost[id].image_url) \in files

\* the image_url values of the rows of a table; the file name in each is a
\* uuid, so the image_url tells one listing from every other
Names(tbl) == {tbl[i].image_url : i \in DOMAIN tbl}

\* C28: with a delete and an approve or reject of the same found item in
\* flight, in either order: every row after a step was there before the
\* step or is the row of the file written by that step, so a listing that
\* has been deleted is in no later state; the commit of the delete leaves
\* the listing absent, and the commit of the approve or reject, which
\* fails when the row is gone, adds no row.
C28_DeletedNeverReturns ==
    [][ /\ \A id \in DOMAIN found' :
              \/ found'[id].image_url \in Names(found)
              \/ uuid_ctr' = uuid_ctr + 1 /\ found'[id].image_url[3] = uuid_ctr'
        /\ (reqs[DeleteSlot].phase = "loaded" /\ reqs'[DeleteSlot].phase = "idle")
           => reqs[DeleteSlot].row.image_url \notin Names(found')
        /\ (reqs[ModerationSlot].phase = "loaded" /\ reqs'[ModerationSlot].phase = "idle")
           => /\ DOMAIN found' = DOMAIN found
              /\ Names(found') = Names(found)
      ]_vars

\* the admin's approve has loaded a pending item, the owner's delete of
\* the item has committed since, and the approve is about to commit: it
\* will answer 500
C28_Witness ==
    /\ reqs[ModerationSlot].phase = "loaded"
    /\ reqs[ModerationSlot].op = "approve_item"
    /\ reqs[ModerationSlot].row.status = "pending"
    /\ reqs[ModerationSlot].row.image_url \notin Names(found)
    /\ reqs[DeleteSlot].phase = "idle"
    /\ commit_status(found, reqs[ModerationSlot], "approved", TRUE).code = 500

\* a header whose token the identity provider accepts for an email that
\* has no account
NoAccount(h) ==
    /\ get_user_from_token(extract_token_from_header(h)).ok
    /\ Caller(extract_token_from_header(h)).id = 0

\* a caller whose token is accepted for an email without an account gets
\* 404 from the uploads, the deletes and the caller's own lists, and 403
\* from add_found_item, approve, reject, the admin lists and the
\* dashboard, and nothing is written
RefusedWithoutAccount ==
    \A h \in AuthHeaders, env \in OkEnvs :
        NoAccount(h) =>
            /\ \A description \in Descriptions, location \in Locations, date \in DateInputs,
                  file \in UploadFiles :
                  /\ upload_found_item_fn(St, h, description, location, date, file, env)
                         = Reply(404, St)
                  /\ upload_lost_item_fn(St, h, description, location, date, file, env)
                         = Reply(404, St)
                  /\ add_found_item_fn(St, h, description, location, date, file, env)
                         = Reply(403, St)
            /\ \A item_id \in ItemIds :
                  /\ delete_found_item_fn(St, h, item_id, env) = Reply(404, St)
                  /\ delete_lost_item_fn(St, h, item_id, env) = Reply(404, St)
                  /\ approve_item_fn(St, h, item_id) = Reply(403, St)
                  /\ reject_item_fn(St, h, item_id) = Reply(403, St)
                  /\ approve_lost_item_fn(St, h, item_id) = Reply(403, St)
                  /\ reject_lost_item_fn(St, h, item_id) = Reply(403, St)
            /\ get_my_found_items_fn(St, h, env).code = 404
            /\ get_my_lost_items_fn(St, h, env).code = 404
            /\ \A skip \in {0, 1}, limit \in {1, 20} :
                  /\ get_pending_items_fn(St, h, skip, limit).code = 403
                  /\ get_approved_items_fn(St, h, skip, limit).code = 403
                  /\ get_rejected_items_fn(St, h, skip, limit).code = 403
                  /\ get_all_items_fn(St, h, skip, limit).code = 403
                  /\ get_pending_lost_items_fn(St, h, skip, limit).code = 403
            /\ admin_dashboard_fn(St, h).code = 403

\* the users tables that signup, login and admin signup can leave
AfterAccountRoutes ==
    {signup_fn(St, name, email).st.users : name \in SignupNames, email \in RequestEmails}
        \cup {login_fn(St, email, token).st.users : email \in RequestEmails, token \in Tokens}
        \cup {admin_signup_fn(St, name, email, admin_key).st.users :
                  name \in SignupNames, email \in AdminSignupEmails, admin_key \in AdminKeys}

StNext == [users |-> users', found |-> found', lost |-> lost', files |-> files',
           uuid_ctr |-> uuid_ctr']

\* the statistics an admin is given have pending_items + approved_items +
\* rejected_items = total_items
FoundCountsAddUp ==
    \A a \in AuthHeaders :
        IsAdminHeader(a) =>
            LET s0 == admin_dashboard_fn(St, a).statistics
            IN s0.pending_items + s0.approved_items + s0.rejected_items = s0.total_items

\* C30: in the statistics the dashboard gives an admin, pending_items +
\* approved_items + rejected_items = total_items in every state; a step
\* that creates a found item raises total_items by exactly one, a step
\* that deletes one lowers it by exactly one, and a step that changes
\* found items in another way keeps it.
C30_FoundCountsAddUp ==
    /\ []FoundCountsAddUp
    /\ [][found' # found =>
              \A a \in AuthHeaders :
                  IsAdminHeader(a) =>
                      LET before == admin_dashboard_fn(St, a).statistics.total_items
                          after == admin_dashboard_fn(StNext, a).statistics.total_items
                      IN after = IF \E id \in DOMAIN found' : id \notin DOMAIN found
                                 THEN before + 1
                                 ELSE IF \E id \in DOMAIN found : id \notin DOMAIN found'
                                 THEN before - 1
                                 ELSE before]_vars

\* an admin sees one rejected and one pending found item, total 2, and
\* the owner's delete of the rejected one brings the total to 1
C30_Witness ==
    \E a, h \in AuthHeaders, env \in OkEnvs, id \in DOMAIN found :
        /\ IsAdminHeader(a)
        /\ admin_dashboard_fn(St, a).statistics.rejected_items = 1
        /\ admin_dashboard_fn(St, a).statistics.pending_items = 1
        /\ admin_dashboard_fn(St, a).statistics.total_items = 2
        /\ found[id].status = "rejected"
        /\ delete_found_item_fn(St, h, id, env).code = 200
        /\ admin_dashboard_fn(delete_found_item_fn(St, h, id, env).st, a).statistics.total_items = 1

====
